---------------------------- MODULE Spec2Model ----------------------------
(***************************************************************************)
(* smart_position (src/smart_position.ts): placement of a position:fixed   *)
(* element next to an anchor, choosing one horizontal and one vertical     *)
(* alignment from the caller's preference lists, and the alignment-string  *)
(* validator validate_alignments.                                          *)
(*                                                                         *)
(* Lengths are integers counting HALF pixels: every input (anchor          *)
(* coordinates, viewport size, margin, glyph size) is a whole number of    *)
(* pixels, written Pixel(n), so that the anchor's centre (left+right)/2    *)
(* and the -50% translation of the element's width are exact.              *)
(*                                                                         *)
(* CSS text values are tuples: <<>> is the empty string '', <<0>> is '0',  *)
(* <<n, "px">> is n + 'px', <<"translate", x, y>> is `translate(x, y)`.    *)
(***************************************************************************)
EXTENDS Integers, Sequences, FiniteSets, TLC

\* ------------------------------------------------------------------ bounds
\* viewport width and height, in pixels (document.documentElement.clientWidth/Height)
ViewportWidth == 2
ViewportHeight == 2
\* largest margin argument, in pixels
MaxMargin == 1
\* largest total number of preferences in the two lists of one call
MaxPrefs == 2
\* largest number of glyphs of the element's content (1 px square each)
MaxGlyphs == 3
\* longest input of validate_alignments
MaxStrings == 3

VARIABLES
    style,                   \* element.style
    pc,                      \* position of the invocation of smart_position
    element,                 \* the element's content and containing block (layout inputs)
    target_rect,             \* const target_rect
    margin,                  \* margin (defaulted)
    horizontal_preferences,  \* args.horizontal_preferences
    vertical_preferences,    \* args.vertical_preferences
    container,               \* container_left, container_top, container_right, container_bottom
    current_width,           \* horizontal_alignment's current_width
    horizontal_alignment,    \* const horizontal_alignment
    current_height,          \* vertical_alignment's current_height
    vertical_alignment,      \* const vertical_alignment
    error,                   \* the Error thrown, <<>> when none
    previous_style,          \* history: the style the completed invocation before this one left
    repeat,                  \* history: this invocation has the inputs of the completed one before it
    value,                   \* validate_alignments: its argument
    next_index,              \* validate_alignments: position of the for-of loop
    alignments,              \* validate_alignments: const alignments
    invalid,                 \* validate_alignments: const invalid
    returned                 \* validate_alignments: its return value, <<>> before it returns

position_vars == <<style, pc, element, target_rect, margin, horizontal_preferences,
                   vertical_preferences, container, current_width, horizontal_alignment,
                   current_height, vertical_alignment, error, previous_style, repeat>>
validate_vars == <<value, next_index, alignments, invalid, returned>>
vars == <<position_vars, validate_vars>>

\* ------------------------------------------------------------------ values
Pixel(n) == 2 * n
Min(a, b) == IF a <= b THEN a ELSE b
Max(a, b) == IF a >= b THEN a ELSE b

Empty == <<>>
Zero == <<0>>
Px(n) == <<n, "px">>
Num(v) == v[1]
Translate(x, y) == <<"translate", x, y>>

Alignment == {"before", "start", "center", "end", "after"}
\* strings a caller may pass: the five tokens and an unrecognized one
Strings == Alignment \cup {"middle"}
Unresolved == "unresolved"

\* is_alignment with one comparison left out
is_alignment_without_end(v) ==
    \/ v = "before"
    \/ v = "start"
    \/ v = "center"
    \/ v = "after"

is_alignment(v) ==
    \/ v = "before"
    \/ v = "start"
    \/ v = "center"
    \/ v = "end"
    \/ v = "after"

window_width == Pixel(ViewportWidth)
window_height == Pixel(ViewportHeight)

\* ------------------------------------------------------------------ inputs
\* the bounding rectangles of anchor elements: inside the viewport, not empty
Rects == {r \in [left : {Pixel(n) : n \in 0..ViewportWidth},
                 right : {Pixel(n) : n \in 0..ViewportWidth},
                 top : {Pixel(n) : n \in 0..ViewportHeight},
                 bottom : {Pixel(n) : n \in 0..ViewportHeight}] :
            r.left < r.right /\ r.top < r.bottom}
\* anchor: HTMLElement | [number, number]
AnchorElements == {[kind |-> "HTMLElement", value |-> r] : r \in Rects}
AnchorPoints == {[kind |-> "point", value |-> <<Pixel(x), Pixel(y)>>] :
                   x \in 0..ViewportWidth, y \in 0..ViewportHeight}
\* margin?: number, <<>> when the caller leaves it out
Margins == {<<>>} \cup {<<Pixel(m)>> : m \in 0..MaxMargin}
Lists(n, tokens) == UNION {[1..k -> tokens] : k \in 0..n}
\* <<horizontal_preferences, vertical_preferences>>, any strings
Preferences == {p \in Lists(MaxPrefs, Strings) \X Lists(MaxPrefs, Strings) :
                  Len(p[1]) + Len(p[2]) <= MaxPrefs}
\* <<horizontal_preferences, vertical_preferences>>, as the type Array<Alignment> allows
TypedPreferences == {p \in Lists(MaxPrefs, Alignment) \X Lists(MaxPrefs, Alignment) :
                       Len(p[1]) + Len(p[2]) <= MaxPrefs}
\* the containing block of the element: the viewport, or an ancestor's box inside it
Viewport == [left |-> 0, top |-> 0, right |-> window_width, bottom |-> window_height]
Inset == [left |-> Pixel(1), top |-> Pixel(1), right |-> window_width, bottom |-> window_height]
\* an element positioned against the viewport, and one nested in a containing block
Elements == [glyphs : 1..MaxGlyphs, block : {Viewport}]
NestedElements == [glyphs : 1..MaxGlyphs, block : {Inset}]
ElementArgs == [anchor : AnchorElements, margin : Margins, preferences : Preferences]
PointArgs == [anchor : AnchorPoints, margin : Margins, preferences : Preferences]
TypedArgs == [anchor : AnchorPoints, margin : Margins, preferences : TypedPreferences]

CleanStyle == [boxSizing |-> Empty, maxHeight |-> Empty, maxWidth |-> Empty, top |-> Empty,
               bottom |-> Empty, left |-> Empty, right |-> Empty, transform |-> Empty]
\* a style the page wrote itself: every property the function manipulates is set
DirtyStyle == [boxSizing |-> <<"content-box">>, maxHeight |-> Px(Pixel(1)), maxWidth |-> Px(Pixel(1)),
               top |-> Px(Pixel(1)), bottom |-> Px(0), left |-> Px(Pixel(1)), right |-> Px(0),
               transform |-> Translate("-50%", "-50%")]
PriorStyles == {CleanStyle, DirtyStyle}

\* --------------------------------------------------- layout (the browser)
\* The content is a run of glyphs, each one pixel square: unconstrained it is
\* one line; under a max-width it wraps, at least one glyph per line.
IntrinsicWidth(e) == Pixel(e.glyphs)
RenderedWidth(st, e) ==
    IF st.maxWidth = Empty THEN IntrinsicWidth(e)
    ELSE Min(IntrinsicWidth(e), Max(0, Num(st.maxWidth)))
LineCount(e, w) ==
    IF w >= IntrinsicWidth(e) THEN 1
    ELSE LET per_line == Max(1, w \div Pixel(1))
         IN (e.glyphs + per_line - 1) \div per_line
RenderedHeight(st, e) ==
    LET content == Pixel(LineCount(e, RenderedWidth(st, e)))
    IN IF st.maxHeight = Empty THEN content
       ELSE Min(content, Max(0, Num(st.maxHeight)))
TranslateX(st) == IF st.transform # Empty /\ st.transform[2] = "-50%" THEN 1 ELSE 0
TranslateY(st) == IF st.transform # Empty /\ st.transform[3] = "-50%" THEN 1 ELSE 0
\* element.getBoundingClientRect() of the position:fixed element e under style st
getBoundingClientRect(st, e) ==
    LET w == RenderedWidth(st, e)
        h == RenderedHeight(st, e)
        x == IF st.left # Empty THEN e.block.left + Num(st.left)
             ELSE IF st.right # Empty THEN e.block.right - Num(st.right) - w
             ELSE e.block.left
        y == IF st.top # Empty THEN e.block.top + Num(st.top)
             ELSE IF st.bottom # Empty THEN e.block.bottom - Num(st.bottom) - h
             ELSE e.block.top
        l == x - TranslateX(st) * (w \div 2)
        t == y - TranslateY(st) * (h \div 2)
    IN [left |-> l, right |-> l + w, top |-> t, bottom |-> t + h, width |-> w, height |-> h]

\* ------------------------------------------------------- smart_position
get_target_rect(target) ==
    IF target.kind = "HTMLElement" THEN target.value
    ELSE [left |-> target.value[1], right |-> target.value[1],
          top |-> target.value[2], bottom |-> target.value[2]]

target_center_x == (target_rect.left + target_rect.right) \div 2
target_center_y == (target_rect.top + target_rect.bottom) \div 2

Return(n) == [threw |-> FALSE, value |-> n]
Throw == [threw |-> TRUE, value |-> 0]

get_horizontal_space(alignment) ==
    IF alignment = "before" THEN Return(target_rect.left - 2 * margin)
    ELSE IF alignment = "start" THEN Return(window_width - target_rect.left - margin)
    ELSE IF alignment = "center"
        THEN Return(Min(window_width - target_center_x, target_center_x) * 2 - 2 * margin)
    ELSE IF alignment = "end" THEN Return(target_rect.right - margin)
    ELSE IF alignment = "after" THEN Return(window_width - target_rect.right - 2 * margin)
    ELSE Throw

\* get_vertical_space defaulting silently instead of throwing
get_vertical_space_silent(alignment) ==
    IF alignment = "before" THEN Return(target_rect.top - 2 * margin)
    ELSE IF alignment = "start" THEN Return(window_height - target_rect.top - margin)
    ELSE IF alignment = "center"
        THEN Return(Min(window_height - target_center_y, target_center_y) * 2 - 2 * margin)
    ELSE IF alignment = "end" THEN Return(target_rect.bottom - margin)
    ELSE IF alignment = "after" THEN Return(window_height - target_rect.bottom - 2 * margin)
    ELSE Return(0)

get_vertical_space(alignment) ==
    IF alignment = "before" THEN Return(target_rect.top - 2 * margin)
    ELSE IF alignment = "start" THEN Return(window_height - target_rect.top - margin)
    ELSE IF alignment = "center"
        THEN Return(Min(window_height - target_center_y, target_center_y) * 2 - 2 * margin)
    ELSE IF alignment = "end" THEN Return(target_rect.bottom - margin)
    ELSE IF alignment = "after" THEN Return(window_height - target_rect.bottom - 2 * margin)
    ELSE Throw

\* the candidate starting at the fallback whatever the list holds
FirstOr_fallback(preferences, fallback) == fallback

\* preferences[0] || fallback: the first entry unless the list is empty or the entry falsy
FirstOr(preferences, fallback) ==
    IF Len(preferences) = 0 \/ preferences[1] = "" THEN fallback ELSE preferences[1]

\* horizontal_alignment without the early return: always the most space
RECURSIVE horizontal_loop_most_space(_, _, _, _)
horizontal_loop_most_space(i, candidate, candidate_space, width) ==
    IF i > Len(horizontal_preferences) THEN [threw |-> FALSE, alignment |-> candidate]
    ELSE LET alignment == horizontal_preferences[i]
             available_space == get_horizontal_space(alignment)
         IN IF available_space.threw THEN [threw |-> TRUE, alignment |-> alignment]
            ELSE IF available_space.value > candidate_space
                THEN horizontal_loop_most_space(i + 1, alignment, available_space.value, width)
            ELSE horizontal_loop_most_space(i + 1, candidate, candidate_space, width)

\* the for-of loop of horizontal_alignment from entry i on, and its return statements
RECURSIVE horizontal_loop(_, _, _, _)
horizontal_loop(i, candidate, candidate_space, width) ==
    IF i > Len(horizontal_preferences) THEN [threw |-> FALSE, alignment |-> candidate]
    ELSE LET alignment == horizontal_preferences[i]
             available_space == get_horizontal_space(alignment)
         IN IF available_space.threw THEN [threw |-> TRUE, alignment |-> alignment]
            ELSE IF available_space.value >= width THEN [threw |-> FALSE, alignment |-> alignment]
            ELSE IF available_space.value > candidate_space
                THEN horizontal_loop(i + 1, alignment, available_space.value, width)
            ELSE horizontal_loop(i + 1, candidate, candidate_space, width)

RECURSIVE vertical_loop(_, _, _, _)
vertical_loop(i, candidate, candidate_space, height) ==
    IF i > Len(vertical_preferences) THEN [threw |-> FALSE, alignment |-> candidate]
    ELSE LET alignment == vertical_preferences[i]
             available_space == get_vertical_space(alignment)
         IN IF available_space.threw THEN [threw |-> TRUE, alignment |-> alignment]
            ELSE IF available_space.value >= height THEN [threw |-> FALSE, alignment |-> alignment]
            ELSE IF available_space.value > candidate_space
                THEN vertical_loop(i + 1, alignment, available_space.value, height)
            ELSE vertical_loop(i + 1, candidate, candidate_space, height)

\* the reset without `style.transform = ''`
ResetStyle_keeping_transform(st) ==
    [boxSizing |-> <<"border-box">>, maxHeight |-> Empty, maxWidth |-> Empty, top |-> Empty,
     bottom |-> Empty, left |-> Empty, right |-> Empty, transform |-> st.transform]

\* reset all positioning and release max-size
ResetStyle(st) ==
    [boxSizing |-> <<"border-box">>, maxHeight |-> Empty, maxWidth |-> Empty, top |-> Empty,
     bottom |-> Empty, left |-> Empty, right |-> Empty, transform |-> Empty]

\* switch (horizontal_alignment)
HorizontalOffset(st, alignment) ==
    CASE alignment = "before" ->
           [st EXCEPT !.right = Px(container.right - target_rect.left + margin)]
      [] alignment = "start" -> [st EXCEPT !.left = Px(target_rect.left - container.left)]
      [] alignment = "center" -> [st EXCEPT !.left = Px(target_center_x - container.left)]
      [] alignment = "end" -> [st EXCEPT !.right = Px(container.right - target_rect.right)]
      [] alignment = "after" ->
           [st EXCEPT !.left = Px(target_rect.right + margin - container.left)]
      [] OTHER -> st

\* switch (vertical_alignment)
VerticalOffset(st, alignment) ==
    CASE alignment = "before" ->
           [st EXCEPT !.bottom = Px(container.bottom - target_rect.top + margin)]
      [] alignment = "start" -> [st EXCEPT !.top = Px(target_rect.top - container.top)]
      [] alignment = "center" -> [st EXCEPT !.top = Px(target_center_y - container.top)]
      [] alignment = "end" -> [st EXCEPT !.bottom = Px(container.bottom - target_rect.bottom)]
      [] alignment = "after" ->
           [st EXCEPT !.top = Px(target_rect.bottom + margin - container.top)]
      [] OTHER -> st

\* translate_x comparing with a misspelt token
translate_x_misspelt(horizontal) == IF horizontal = "centre" THEN "-50%" ELSE "0"

translate_x(horizontal) == IF horizontal = "center" THEN "-50%" ELSE "0"
translate_y(vertical) == IF vertical = "center" THEN "-50%" ELSE "0"

NoLocals ==
    /\ target_rect = [left |-> 0, right |-> 0, top |-> 0, bottom |-> 0]
    /\ margin = 0
    /\ horizontal_preferences = <<>>
    /\ vertical_preferences = <<>>
    /\ container = [left |-> 0, top |-> 0, right |-> 0, bottom |-> 0]
    /\ current_width = 0
    /\ horizontal_alignment = Unresolved
    /\ current_height = 0
    /\ vertical_alignment = Unresolved
    /\ error = <<>>

NoValidation ==
    /\ value = <<>>
    /\ next_index = 1
    /\ alignments = <<>>
    /\ invalid = <<>>
    /\ returned = <<>>

\* smart_position(e, args) up to the reset of the style st the element holds: the
\* arguments are destructured, the anchor's rectangle is read, the style is reset
Invoke(e, args, st) ==
    /\ element' = e
    /\ target_rect' = get_target_rect(args.anchor)
    /\ margin' = IF args.margin = <<>> THEN 0 ELSE args.margin[1]
    /\ horizontal_preferences' = args.preferences[1]
    /\ vertical_preferences' = args.preferences[2]
    /\ style' = ResetStyle(st)
    /\ container' = [left |-> 0, top |-> 0, right |-> 0, bottom |-> 0]
    /\ current_width' = 0
    /\ horizontal_alignment' = Unresolved
    /\ current_height' = 0
    /\ vertical_alignment' = Unresolved
    /\ error' = <<>>
    /\ pc' = "probe"
    /\ UNCHANGED validate_vars

\* the first invocation on the element
Enter(e, args) ==
    /\ pc = "idle"
    /\ Invoke(e, args, style)
    /\ UNCHANGED <<previous_style, repeat>>

\* the arguments of the invocation that completed
SameArgs ==
    [anchor |-> [kind |-> "point", value |-> <<target_rect.left, target_rect.top>>],
     margin |-> <<margin>>,
     preferences |-> <<horizontal_preferences, vertical_preferences>>]

\* the caller invokes again with the same element and arguments; in between the
\* page left the style alone (st = style) or overwrote it
Reinvoke(st) ==
    /\ pc = "done"
    /\ Invoke(element, SameArgs, st)
    /\ previous_style' = style
    /\ repeat' = TRUE

\* the caller invokes again after the anchor moved to the mirrored point
Reposition ==
    /\ pc = "done"
    /\ Invoke(element,
              [SameArgs EXCEPT !.anchor.value = <<window_width - target_rect.left,
                                                  window_height - target_rect.top>>],
              style)
    /\ previous_style' = style
    /\ repeat' = FALSE

\* the probes without the last `style.right = style.bottom = ''`
ProbeBounds_unreleased(st, e) ==
    LET origin == [st EXCEPT !.left = Zero, !.top = Zero]
        rect1 == getBoundingClientRect(origin, e)
        released == [origin EXCEPT !.left = Empty, !.top = Empty]
        corner == [released EXCEPT !.right = Zero, !.bottom = Zero]
        rect2 == getBoundingClientRect(corner, e)
    IN [container |-> [left |-> rect1.left, top |-> rect1.top,
                       right |-> rect2.right, bottom |-> rect2.bottom],
        style |-> corner]

\* the element pinned to the origin, measured and released, then pinned to the far
\* corner, measured and released: the bounds found, and the style left
ProbeBounds(st, e) ==
    LET origin == [st EXCEPT !.left = Zero, !.top = Zero]
        rect1 == getBoundingClientRect(origin, e)
        released == [origin EXCEPT !.left = Empty, !.top = Empty]
        corner == [released EXCEPT !.right = Zero, !.bottom = Zero]
        rect2 == getBoundingClientRect(corner, e)
    IN [container |-> [left |-> rect1.left, top |-> rect1.top,
                       right |-> rect2.right, bottom |-> rect2.bottom],
        style |-> [corner EXCEPT !.right = Empty, !.bottom = Empty]]

\* the two probes of the containing block
ProbeContainer ==
    /\ pc = "probe"
    /\ LET probed == ProbeBounds(style, element)
       IN /\ container' = probed.container
          /\ style' = probed.style
    /\ pc' = "horizontal"
    /\ UNCHANGED <<element, target_rect, margin, horizontal_preferences, vertical_preferences,
                   current_width, horizontal_alignment, current_height, vertical_alignment,
                   error, previous_style, repeat>>
    /\ UNCHANGED validate_vars

\* const horizontal_alignment = (function() {...})()
ResolveHorizontal ==
    /\ pc = "horizontal"
    /\ LET width == getBoundingClientRect(style, element).width
           chosen == horizontal_loop(1, FirstOr(horizontal_preferences, "start"), 0, width)
       IN /\ current_width' = width
          /\ IF chosen.threw
             THEN /\ error' = <<"Invalid alignment: ", chosen.alignment>>
                  /\ pc' = "raised"
                  /\ UNCHANGED horizontal_alignment
             ELSE /\ horizontal_alignment' = chosen.alignment
                  /\ pc' = "width"
                  /\ UNCHANGED error
    /\ UNCHANGED <<style, element, target_rect, margin, horizontal_preferences,
                   vertical_preferences, container, current_height, vertical_alignment,
                   previous_style, repeat>>
    /\ UNCHANGED validate_vars

\* the write of max-width left for later
ApplyMaxWidth_deferred(st, space) == st

\* style.maxWidth = get_horizontal_space(horizontal_alignment) + 'px'
ApplyMaxWidth(st, space) == [st EXCEPT !.maxWidth = Px(space)]

\* the horizontal offset, then style.maxWidth
ApplyWidth ==
    /\ pc = "width"
    /\ LET space == get_horizontal_space(horizontal_alignment)
           placed == HorizontalOffset(style, horizontal_alignment)
       IN IF space.threw
          THEN /\ style' = placed
               /\ error' = <<"Invalid alignment: ", horizontal_alignment>>
               /\ pc' = "raised"
          ELSE /\ style' = ApplyMaxWidth(placed, space.value)
               /\ pc' = "vertical"
               /\ UNCHANGED error
    /\ UNCHANGED <<element, target_rect, margin, horizontal_preferences, vertical_preferences,
                   container, current_width, horizontal_alignment, current_height,
                   vertical_alignment, previous_style, repeat>>
    /\ UNCHANGED validate_vars

\* const vertical_alignment = (function() {...})()
ResolveVertical ==
    /\ pc = "vertical"
    /\ LET height == getBoundingClientRect(style, element).height
           chosen == vertical_loop(1, FirstOr(vertical_preferences, "after"), 0, height)
       IN /\ current_height' = height
          /\ IF chosen.threw
             THEN /\ error' = <<"Invalid alignment: ", chosen.alignment>>
                  /\ pc' = "raised"
                  /\ UNCHANGED vertical_alignment
             ELSE /\ vertical_alignment' = chosen.alignment
                  /\ pc' = "height"
                  /\ UNCHANGED error
    /\ UNCHANGED <<style, element, target_rect, margin, horizontal_preferences,
                   vertical_preferences, container, current_width, horizontal_alignment,
                   previous_style, repeat>>
    /\ UNCHANGED validate_vars

\* style.maxHeight, the vertical offset, then style.transform
ApplyHeight ==
    /\ pc = "height"
    /\ LET space == get_vertical_space(vertical_alignment)
       IN IF space.threw
          THEN /\ error' = <<"Invalid alignment: ", vertical_alignment>>
               /\ pc' = "raised"
               /\ UNCHANGED style
          ELSE /\ style' = [VerticalOffset([style EXCEPT !.maxHeight = Px(space.value)],
                                           vertical_alignment)
                              EXCEPT !.transform = Translate(translate_x(horizontal_alignment),
                                                             translate_y(vertical_alignment))]
               /\ pc' = "done"
               /\ UNCHANGED error
    /\ UNCHANGED <<element, target_rect, margin, horizontal_preferences, vertical_preferences,
                   container, current_width, horizontal_alignment, current_height,
                   vertical_alignment, previous_style, repeat>>
    /\ UNCHANGED validate_vars

Init ==
    /\ style \in PriorStyles
    /\ pc = "idle"
    /\ element = [glyphs |-> 1, block |-> Viewport]
    /\ previous_style = CleanStyle
    /\ repeat = FALSE
    /\ NoLocals
    /\ NoValidation

\* ---------------------------------------------------- validate_alignments
\* the body of `for (const v of value)`
Visit ==
    /\ next_index <= Len(value)
    /\ LET v == value[next_index]
       IN IF is_alignment(v)
          THEN alignments' = Append(alignments, v) /\ UNCHANGED invalid
          ELSE invalid' = Append(invalid, v) /\ UNCHANGED alignments
    /\ next_index' = next_index + 1
    /\ UNCHANGED <<value, returned>>
    /\ UNCHANGED position_vars

\* return [alignments, invalid]
ReturnValidated ==
    /\ next_index > Len(value)
    /\ returned = <<>>
    /\ returned' = <<alignments, invalid>>
    /\ UNCHANGED <<value, next_index, alignments, invalid>>
    /\ UNCHANGED position_vars

\* validate_alignments(value) on any sequence of strings, the empty string among them
InitValidate ==
    /\ value \in Lists(MaxStrings, Strings \cup {""})
    /\ next_index = 1
    /\ alignments = <<>>
    /\ invalid = <<>>
    /\ returned = <<>>
    /\ style = CleanStyle
    /\ pc = "idle"
    /\ element = [glyphs |-> 1, block |-> Viewport]
    /\ previous_style = CleanStyle
    /\ repeat = FALSE
    /\ NoLocals

NextValidate ==
    \/ Visit
    \/ ReturnValidated

SpecValidate == InitValidate /\ [][NextValidate]_vars

Steps ==
    \/ ProbeContainer
    \/ ResolveHorizontal
    \/ ApplyWidth
    \/ ResolveVertical
    \/ ApplyHeight

\* one invocation of smart_position, with any strings as preferences
Next ==
    \/ pc = "idle" /\ \E e \in Elements, args \in ElementArgs : Enter(e, args)
    \/ pc = "idle" /\ \E e \in Elements, args \in PointArgs : Enter(e, args)
    \/ Steps

Spec == Init /\ [][Next]_vars

\* repeated invocations on an element nested in a containing block
NextRepeat ==
    \/ pc = "idle" /\ \E e \in NestedElements, args \in TypedArgs : Enter(e, args)
    \/ \E st \in PriorStyles \cup {style} : Reinvoke(st)
    \/ Reposition
    \/ Steps

SpecRepeat == Init /\ [][NextRepeat]_vars

\* -------------------------------------------------------------- properties
HorizontalChosen == horizontal_alignment # Unresolved
VerticalChosen == vertical_alignment # Unresolved
HorizontalSpace(i) == get_horizontal_space(horizontal_preferences[i]).value
VerticalSpace(i) == get_vertical_space(vertical_preferences[i]).value
AllAlignments(preferences) == \A i \in 1..Len(preferences) : preferences[i] \in Alignment
HorizontalFits(i) ==
    horizontal_preferences[i] \in Alignment /\ HorizontalSpace(i) >= current_width
VerticalFits(i) ==
    vertical_preferences[i] \in Alignment /\ VerticalSpace(i) >= current_height
\* the least index of a non-empty set of indices
First(indices) == CHOOSE i \in indices : \A j \in indices : i <= j
Written(property) == property # Empty
NoFinalEffect(properties) == \A p \in properties : style[p] = Empty

\* C1: when no preference of an axis has space for the element's size, the alignment
\* chosen is the earliest preference among those with the most available space.
C1_GreedyFallback ==
    /\ (/\ HorizontalChosen
        /\ Len(horizontal_preferences) > 0
        /\ AllAlignments(horizontal_preferences)
        /\ \A i \in 1..Len(horizontal_preferences) : ~HorizontalFits(i))
       => LET most == {i \in 1..Len(horizontal_preferences) :
                         \A j \in 1..Len(horizontal_preferences) :
                            HorizontalSpace(i) >= HorizontalSpace(j)}
          IN horizontal_alignment = horizontal_preferences[First(most)]
    /\ (/\ VerticalChosen
        /\ Len(vertical_preferences) > 0
        /\ AllAlignments(vertical_preferences)
        /\ \A i \in 1..Len(vertical_preferences) : ~VerticalFits(i))
       => LET most == {i \in 1..Len(vertical_preferences) :
                         \A j \in 1..Len(vertical_preferences) :
                            VerticalSpace(i) >= VerticalSpace(j)}
          IN vertical_alignment = vertical_preferences[First(most)]

\* C2: when some preference of an axis has space for the element's size, the alignment
\* chosen is the first such preference of the list, whatever space later ones offer.
C2_PriorityOverSpace ==
    /\ (/\ HorizontalChosen
        /\ \E i \in 1..Len(horizontal_preferences) : HorizontalFits(i))
       => horizontal_alignment = horizontal_preferences[
              First({i \in 1..Len(horizontal_preferences) : HorizontalFits(i)})]
    /\ (/\ VerticalChosen
        /\ \E i \in 1..Len(vertical_preferences) : VerticalFits(i))
       => vertical_alignment = vertical_preferences[
              First({i \in 1..Len(vertical_preferences) : VerticalFits(i)})]

\* C2's case: the first preference fits and is chosen although the second offers more space
C2_Witness ==
    /\ pc = "done"
    /\ Len(horizontal_preferences) = 2
    /\ HorizontalFits(1)
    /\ horizontal_preferences[2] \in Alignment
    /\ HorizontalSpace(2) > HorizontalSpace(1)
    /\ horizontal_alignment = horizontal_preferences[1]
    /\ horizontal_alignment # horizontal_preferences[2]

\* C3: after a completed invocation with the anchor inside the viewport, a margin >= 0
\* and the viewport as containing block, the element's box, sized under the written
\* max-width and max-height and placed by the written offsets and transform, lies
\* inside the viewport.
C3_EntirelyOnScreen ==
    (pc = "done" /\ element.block = Viewport)
    => LET box == getBoundingClientRect(style, element)
       IN /\ 0 <= box.left
          /\ box.right <= window_width
          /\ 0 <= box.top
          /\ box.bottom <= window_height

\* C4 as claimed: whenever the invocation raises, none of the offsets, max-width,
\* max-height and transform has been written.
C4_NoPartialFailure ==
    pc = "raised"
    => NoFinalEffect({"left", "right", "top", "bottom", "maxWidth", "maxHeight", "transform"})

\* C4 as amended: an invocation that completed has written max-width, one horizontal
\* offset, max-height, one vertical offset and the transform, and raised nothing; an
\* invocation raises only on an unrecognized token of a preference list; raised
\* on a horizontal token nothing of these is written; raised on a vertical token the
\* horizontal offset and max-width are written and max-height, the vertical offsets
\* and the transform are not.
C4_CompletesOrRaises ==
    /\ pc = "done"
       => /\ Written(style.maxWidth) /\ Written(style.maxHeight) /\ Written(style.transform)
          /\ Written(style.left) # Written(style.right)
          /\ Written(style.top) # Written(style.bottom)
          /\ error = <<>>
    /\ pc = "raised"
       => /\ error[2] \notin Alignment
          /\ IF ~HorizontalChosen
             THEN /\ \E i \in 1..Len(horizontal_preferences) :
                        horizontal_preferences[i] = error[2]
                  /\ NoFinalEffect({"left", "right", "top", "bottom", "maxWidth",
                                    "maxHeight", "transform"})
             ELSE /\ \E i \in 1..Len(vertical_preferences) :
                        vertical_preferences[i] = error[2]
                  /\ Written(style.maxWidth)
                  /\ Written(style.left) # Written(style.right)
                  /\ NoFinalEffect({"top", "bottom", "maxHeight", "transform"})

\* C4's case: the invocation raised on a vertical token, after the horizontal writes
C4_Witness ==
    /\ pc = "raised"
    /\ HorizontalChosen
    /\ Written(style.maxWidth)

\* C5: after every completed invocation, whatever offsets the style held before it,
\* exactly one of left/right and exactly one of top/bottom is set.
C5_OneOffsetPerAxis ==
    pc = "done"
    => /\ Written(style.left) # Written(style.right)
       /\ Written(style.top) # Written(style.bottom)

\* C5's case: the invocation before chose another alignment and pinned the right
\* edge, this one pins the left edge
C5_Witness ==
    /\ pc = "done"
    /\ ~repeat
    /\ Written(previous_style.right)
    /\ Written(style.left)
    /\ ~Written(style.right)

\* C6: a completed invocation has chosen one alignment per axis: a member of the
\* axis's preference list, or for an empty list the default ('start', 'after'), and
\* then max-width / max-height is the default's available space.
C6_ChosenMembership ==
    pc = "done"
    => /\ horizontal_alignment \in Alignment
       /\ vertical_alignment \in Alignment
       /\ Len(horizontal_preferences) > 0
          => \E i \in 1..Len(horizontal_preferences) :
                horizontal_preferences[i] = horizontal_alignment
       /\ Len(vertical_preferences) > 0
          => \E i \in 1..Len(vertical_preferences) :
                vertical_preferences[i] = vertical_alignment
       /\ Len(horizontal_preferences) = 0
          => /\ horizontal_alignment = "start"
             /\ style.maxWidth = Px(window_width - target_rect.left - margin)
       /\ Len(vertical_preferences) = 0
          => /\ vertical_alignment = "after"
             /\ style.maxHeight = Px(window_height - target_rect.bottom - 2 * margin)

\* C6's case: both lists empty, and the defaults' space smaller than the element
C6_Witness ==
    /\ pc = "done"
    /\ horizontal_preferences = <<>> /\ vertical_preferences = <<>>
    /\ current_width > window_width - target_rect.left - margin
    /\ current_height > window_height - target_rect.bottom - 2 * margin

\* C7: validate_alignments returns [valid, invalid]: valid the subsequence of the
\* inputs that are one of the five tokens, invalid the subsequence of the others,
\* both in input order, their lengths adding up to the input's.
C7_Token(v) == v \in {"before", "start", "center", "end", "after"}
C7_Other(v) == ~C7_Token(v)
C7_ValidatorPartition ==
    /\ returned # <<>>
       => /\ returned[1] = SelectSeq(value, C7_Token)
          /\ returned[2] = SelectSeq(value, C7_Other)
          /\ Len(returned[1]) + Len(returned[2]) = Len(value)
    /\ returned = <<>> => ENABLED NextValidate

\* C7's case: a returned partition with tokens and other strings interleaved
C7_Witness ==
    /\ returned # <<>>
    /\ Len(value) = 3
    /\ C7_Other(value[1]) /\ C7_Token(value[2]) /\ C7_Other(value[3])
    /\ value[1] # value[3]

\* C8: after a completed invocation the transform's x component is -50% exactly when
\* the horizontal alignment is 'center' and 0 otherwise, and likewise its y component.
C8_CenterTranslation ==
    pc = "done"
    => /\ style.transform[1] = "translate"
       /\ style.transform[2] = (IF horizontal_alignment = "center" THEN "-50%" ELSE "0")
       /\ style.transform[3] = (IF vertical_alignment = "center" THEN "-50%" ELSE "0")

\* C8's case: centred on one axis only
C8_Witness ==
    /\ pc = "done"
    /\ horizontal_alignment = "center"
    /\ vertical_alignment # "center"
    /\ style.transform = Translate("-50%", "0")

\* C9: invoked again with the inputs of the completed invocation before it, whatever
\* the style holds at that moment (what that invocation left, or what the page wrote
\* over it), smart_position leaves the style that invocation left.
C9_Idempotent ==
    (pc = "done" /\ repeat) => style = previous_style

\* C9's case: a repeated invocation completed, centred on both axes
C9_Witness ==
    /\ pc = "done"
    /\ repeat
    /\ style.transform = Translate("-50%", "-50%")
    /\ current_width > 0

\* C10: the style is reset before the containing block is probed; nothing is written
\* while the horizontal alignment is resolved; max-width is written before the height
\* is read; the height that chooses the vertical alignment is the element's height
\* under that max-width; max-height, top, bottom and the transform are written only
\* after that read.
C10_HeightUnderWidth ==
    LET space == get_horizontal_space(horizontal_alignment).value
        width == Min(IntrinsicWidth(element), Max(0, space))
    IN Pixel(LineCount(element, width))
C10_WidthBeforeHeight ==
    /\ pc \in {"probe", "horizontal", "width"}
       => NoFinalEffect({"left", "right", "top", "bottom", "maxWidth", "maxHeight",
                         "transform"})
    /\ pc = "probe" => ~HorizontalChosen /\ current_width = 0
    /\ pc = "horizontal"
       => /\ ~HorizontalChosen
          /\ container = element.block
    /\ pc \in {"horizontal", "width", "vertical"} => ~VerticalChosen /\ current_height = 0
    /\ pc = "width" => HorizontalChosen /\ current_width = IntrinsicWidth(element)
    /\ pc \in {"vertical", "height"}
       => /\ style.maxWidth = Px(get_horizontal_space(horizontal_alignment).value)
          /\ NoFinalEffect({"top", "bottom", "maxHeight", "transform"})
    /\ pc \in {"height", "done"}
       => /\ VerticalChosen
          /\ current_height = C10_HeightUnderWidth

\* C10's case: the width constraint wrapped the content, and the taller height read
\* after it decided the vertical alignment
C10_Witness ==
    /\ pc = "done"
    /\ current_height > Pixel(1)
    /\ Len(vertical_preferences) = 2
    /\ vertical_alignment = vertical_preferences[2]
    /\ get_vertical_space(vertical_preferences[1]).value >= Pixel(1)

=============================================================================
